---- MODULE Spec2Model ----
(***************************************************************************)
(* ThermalDetectionService (src/python/detection_service.py): one run of   *)
(* main() as a sequential state machine.  The detector (YOLO), the media   *)
(* library (cv2) and the file system are the environment: each of their    *)
(* calls is a nondeterministic choice among the outcomes the call can have.*)
(* stdout is the sequence `events` (JSON events) plus `plain` (plain text  *)
(* lines printed by main).                                                 *)
(***************************************************************************)
EXTENDS Integers, Sequences, FiniteSets, TLC

VARIABLES
  pc,           \* position of the single thread of control
  options,      \* self.options, a dict (function from keys to values)
  model,        \* self.model: "none", "custom" or "pretrained"
  events,       \* JSON events printed so far, in emission order
  plain,        \* plain-text lines printed by main()
  clock,        \* the value the next time.time() call returns
  exit_status,  \* -1 while running, else the process exit status
  image,        \* process_image's decoded image: its shape, or <<>> for None
  preds,        \* what the last model.predict call returned (or that it raised)
  results,      \* the dict the last detect_objects call returned
  cap,          \* the cv2.VideoCapture: state, frames in the stream, frames read
  frame_count,  \* process_video's frame_count
  total_frames, \* process_video's total_frames (container's reported count)
  fps,          \* process_video's fps
  calls,        \* the detector's call log: which frame, and whether it raised
  files         \* annotated files present in the output directory

vars == <<pc, options, model, events, plain, clock, exit_status, image, preds,
          results, cap, frame_count, total_frames, fps, calls, files>>

-----------------------------------------------------------------------------
(* Bounds of the model.                                                    *)

\* longest list of raw detections the detector returns for a still image
MaxRaw == 2
\* longest list of raw detections the detector returns for a video frame
MaxRawVideo == 1
\* largest number of frames a video stream delivers before end-of-stream
MaxFrames == 6

-----------------------------------------------------------------------------
(* Values of the environment.                                              *)

\* True division a / b of Python, kept exact as a fraction (b > 0).
TrueDiv(a, b) == [num |-> a, den |-> b]

\* Integer conversion by floor instead of truncation toward zero.
TruncFloor(n, d) == n \div d

\* int(n / d) of Python for d > 0: truncation toward zero.
Trunc(n, d) == IF n >= 0 THEN n \div d ELSE -((-n) \div d)

\* Detector-native class ids the detector may report (COCO ids).
ClassIds == {0, 1, 2}

\* Confidences the detector may report, in percent.
Confidences == {50, 90}

\* Boxes the detector may report: centre and extent, in half pixels.
Boxes == {[xc |-> 200, yc |-> 200, bw |-> 80, bh |-> 160]}

\* One raw detection: an entry of preds.xywh, preds.cls and preds.conf.
RawDetections ==
  {[xc |-> b.xc, yc |-> b.yc, bw |-> b.bw, bh |-> b.bh, cls |-> c, conf |-> f] :
     b \in Boxes, c \in ClassIds, f \in Confidences}

SeqsUpTo(S, n) == UNION {[1..k -> S] : k \in 0..n}

\* What model.predict can do: raise, return a result whose boxes is None,
\* or return the boxes of up to n raw detections.
PredictOutcomes(n) ==
  {[kind |-> "raise", boxes |-> <<>>], [kind |-> "none", boxes |-> <<>>]}
    \cup {[kind |-> "boxes", boxes |-> s] : s \in SeqsUpTo(RawDetections, n)}

\* File name suffixes, as sequences of code points.
dot_jpg == <<46, 106, 112, 103>>             \* .jpg
dot_jpeg == <<46, 106, 112, 101, 103>>       \* .jpeg
dot_png == <<46, 112, 110, 103>>             \* .png
dot_bmp == <<46, 98, 109, 112>>              \* .bmp
dot_tiff == <<46, 116, 105, 102, 102>>       \* .tiff
dot_mp4 == <<46, 109, 112, 52>>              \* .mp4
dot_avi == <<46, 97, 118, 105>>              \* .avi
dot_mov == <<46, 109, 111, 118>>             \* .mov
dot_mkv == <<46, 109, 107, 118>>             \* .mkv

\* The extensions process_media accepts (lines 60, 62).
ImageSuffixes == {dot_jpg, dot_jpeg, dot_png, dot_bmp, dot_tiff}
VideoSuffixes == {dot_mp4, dot_avi, dot_mov, dot_mkv}

\* The suffixes of the media paths of the runs.
dot_PnG == <<46, 80, 110, 71>>               \* .PnG
dot_Mp4 == <<46, 77, 112, 52>>               \* .Mp4
dot_txt == <<46, 116, 120, 116>>             \* .txt
dot_jpgx == <<46, 106, 112, 103, 120>>       \* .jpgx
dot_JPEacuteG == <<46, 74, 80, 201, 71>>     \* .JP, U+00C9, G
dot_JPSigma == <<46, 74, 80, 931>>           \* .JP, U+03A3 (capital sigma)
dot_tIdotff == <<46, 116, 304, 102, 102>>    \* .t, U+0130 (dotted I), ff
dot_mKelvinv == <<46, 109, 8490, 118>>       \* .m, U+212A (Kelvin sign), v

\* The last of them is given to existing files only.
Suffixes == {dot_jpg, dot_PnG, dot_Mp4, dot_txt, dot_jpgx, dot_JPEacuteG,
             dot_JPSigma, dot_tIdotff, <<>>}

\* The media paths of the runs: whether the file exists, its stem and suffix.
\* The still images are named a or thermal_01, the other files a.
MediaPaths ==
  {[exists |-> e, stem |-> "a", suffix |-> s] : e \in BOOLEAN, s \in Suffixes}
    \cup {[exists |-> TRUE, stem |-> "thermal_01", suffix |-> s] :
            s \in {dot_jpg, dot_PnG}}
    \cup {[exists |-> TRUE, stem |-> "a", suffix |-> dot_mKelvinv]}

\* The JSON option objects of the runs: each of mediaPath, detectPerson and
\* detectCar may be absent.
FlagDicts == UNION {[K -> BOOLEAN] : K \in SUBSET {"detectPerson", "detectCar"}}
OptionDicts ==
  FlagDicts \cup {f @@ [mediaPath |-> p] : f \in FlagDicts, p \in MediaPaths}

\* Reported frame counts and frame rates of the video containers.
TotalFrameCounts == {0, 3, MaxFrames + 2}
FpsValues == {0, 2}

\* Shape of every decoded image or frame.
ImageShape == <<480, 640, 3>>

-----------------------------------------------------------------------------
(* Pure helpers of the service.                                            *)

\* A character is its Unicode code point and a string the sequence of its
\* code points, as in a Python str.

\* The characters str.lower() changes to one other character, as ranges
\* <<first, last, step, delta>>: each character first, first + step, ... up to
\* last lowers to itself plus delta.  Every other character but U+0130 and
\* U+03A3 is its own lower case.
LowerMappings ==
  <<<<65, 90, 1, 32>>, <<192, 214, 1, 32>>, <<216, 222, 1, 32>>,
    <<256, 302, 2, 1>>, <<306, 310, 2, 1>>, <<313, 327, 2, 1>>,
    <<330, 374, 2, 1>>, <<376, 376, 1, -121>>, <<377, 381, 2, 1>>,
    <<385, 385, 1, 210>>, <<386, 388, 2, 1>>, <<390, 390, 1, 206>>,
    <<391, 391, 1, 1>>, <<393, 394, 1, 205>>, <<395, 395, 1, 1>>,
    <<398, 398, 1, 79>>, <<399, 399, 1, 202>>, <<400, 400, 1, 203>>,
    <<401, 401, 1, 1>>, <<403, 403, 1, 205>>, <<404, 404, 1, 207>>,
    <<406, 406, 1, 211>>, <<407, 407, 1, 209>>, <<408, 408, 1, 1>>,
    <<412, 412, 1, 211>>, <<413, 413, 1, 213>>, <<415, 415, 1, 214>>,
    <<416, 420, 2, 1>>, <<422, 422, 1, 218>>, <<423, 423, 1, 1>>,
    <<425, 425, 1, 218>>, <<428, 428, 1, 1>>, <<430, 430, 1, 218>>,
    <<431, 431, 1, 1>>, <<433, 434, 1, 217>>, <<435, 437, 2, 1>>,
    <<439, 439, 1, 219>>, <<440, 440, 1, 1>>, <<444, 444, 1, 1>>,
    <<452, 452, 1, 2>>, <<453, 453, 1, 1>>, <<455, 455, 1, 2>>,
    <<456, 456, 1, 1>>, <<458, 458, 1, 2>>, <<459, 475, 2, 1>>,
    <<478, 494, 2, 1>>, <<497, 497, 1, 2>>, <<498, 500, 2, 1>>,
    <<502, 502, 1, -97>>, <<503, 503, 1, -56>>, <<504, 542, 2, 1>>,
    <<544, 544, 1, -130>>, <<546, 562, 2, 1>>, <<570, 570, 1, 10795>>,
    <<571, 571, 1, 1>>, <<573, 573, 1, -163>>, <<574, 574, 1, 10792>>,
    <<577, 577, 1, 1>>, <<579, 579, 1, -195>>, <<580, 580, 1, 69>>,
    <<581, 581, 1, 71>>, <<582, 590, 2, 1>>, <<880, 882, 2, 1>>,
    <<886, 886, 1, 1>>, <<895, 895, 1, 116>>, <<902, 902, 1, 38>>,
    <<904, 906, 1, 37>>, <<908, 908, 1, 64>>, <<910, 911, 1, 63>>,
    <<913, 929, 1, 32>>, <<932, 939, 1, 32>>, <<975, 975, 1, 8>>,
    <<984, 1006, 2, 1>>, <<1012, 1012, 1, -60>>, <<1015, 1015, 1, 1>>,
    <<1017, 1017, 1, -7>>, <<1018, 1018, 1, 1>>, <<1021, 1023, 1, -130>>,
    <<1024, 1039, 1, 80>>, <<1040, 1071, 1, 32>>, <<1120, 1152, 2, 1>>,
    <<1162, 1214, 2, 1>>, <<1216, 1216, 1, 15>>, <<1217, 1229, 2, 1>>,
    <<1232, 1326, 2, 1>>, <<1329, 1366, 1, 48>>, <<4256, 4293, 1, 7264>>,
    <<4295, 4295, 1, 7264>>, <<4301, 4301, 1, 7264>>,
    <<5024, 5103, 1, 38864>>, <<5104, 5109, 1, 8>>, <<7312, 7354, 1, -3008>>,
    <<7357, 7359, 1, -3008>>, <<7680, 7828, 2, 1>>, <<7838, 7838, 1, -7615>>,
    <<7840, 7934, 2, 1>>, <<7944, 7951, 1, -8>>, <<7960, 7965, 1, -8>>,
    <<7976, 7983, 1, -8>>, <<7992, 7999, 1, -8>>, <<8008, 8013, 1, -8>>,
    <<8025, 8031, 2, -8>>, <<8040, 8047, 1, -8>>, <<8072, 8079, 1, -8>>,
    <<8088, 8095, 1, -8>>, <<8104, 8111, 1, -8>>, <<8120, 8121, 1, -8>>,
    <<8122, 8123, 1, -74>>, <<8124, 8124, 1, -9>>, <<8136, 8139, 1, -86>>,
    <<8140, 8140, 1, -9>>, <<8152, 8153, 1, -8>>, <<8154, 8155, 1, -100>>,
    <<8168, 8169, 1, -8>>, <<8170, 8171, 1, -112>>, <<8172, 8172, 1, -7>>,
    <<8184, 8185, 1, -128>>, <<8186, 8187, 1, -126>>, <<8188, 8188, 1, -9>>,
    <<8486, 8486, 1, -7517>>, <<8490, 8490, 1, -8383>>,
    <<8491, 8491, 1, -8262>>, <<8498, 8498, 1, 28>>, <<8544, 8559, 1, 16>>,
    <<8579, 8579, 1, 1>>, <<9398, 9423, 1, 26>>, <<11264, 11311, 1, 48>>,
    <<11360, 11360, 1, 1>>, <<11362, 11362, 1, -10743>>,
    <<11363, 11363, 1, -3814>>, <<11364, 11364, 1, -10727>>,
    <<11367, 11371, 2, 1>>, <<11373, 11373, 1, -10780>>,
    <<11374, 11374, 1, -10749>>, <<11375, 11375, 1, -10783>>,
    <<11376, 11376, 1, -10782>>, <<11378, 11378, 1, 1>>,
    <<11381, 11381, 1, 1>>, <<11390, 11391, 1, -10815>>,
    <<11392, 11490, 2, 1>>, <<11499, 11501, 2, 1>>, <<11506, 11506, 1, 1>>,
    <<42560, 42604, 2, 1>>, <<42624, 42650, 2, 1>>, <<42786, 42798, 2, 1>>,
    <<42802, 42862, 2, 1>>, <<42873, 42875, 2, 1>>,
    <<42877, 42877, 1, -35332>>, <<42878, 42886, 2, 1>>,
    <<42891, 42891, 1, 1>>, <<42893, 42893, 1, -42280>>,
    <<42896, 42898, 2, 1>>, <<42902, 42920, 2, 1>>,
    <<42922, 42922, 1, -42308>>, <<42923, 42923, 1, -42319>>,
    <<42924, 42924, 1, -42315>>, <<42925, 42925, 1, -42305>>,
    <<42926, 42926, 1, -42308>>, <<42928, 42928, 1, -42258>>,
    <<42929, 42929, 1, -42282>>, <<42930, 42930, 1, -42261>>,
    <<42931, 42931, 1, 928>>, <<42932, 42946, 2, 1>>,
    <<42948, 42948, 1, -48>>, <<42949, 42949, 1, -42307>>,
    <<42950, 42950, 1, -35384>>, <<42951, 42953, 2, 1>>,
    <<42960, 42960, 1, 1>>, <<42966, 42968, 2, 1>>, <<42997, 42997, 1, 1>>,
    <<65313, 65338, 1, 32>>, <<66560, 66599, 1, 40>>,
    <<66736, 66771, 1, 40>>, <<66928, 66938, 1, 39>>,
    <<66940, 66954, 1, 39>>, <<66956, 66962, 1, 39>>,
    <<66964, 66965, 1, 39>>, <<68736, 68786, 1, 64>>,
    <<71840, 71871, 1, 32>>, <<93760, 93791, 1, 32>>,
    <<125184, 125217, 1, 34>>>>

\* The cased characters (Unicode property Cased), as ranges
\* <<first, last, step>>.
CasedRanges ==
  <<<<65, 90, 1>>, <<97, 122, 1>>, <<170, 170, 1>>, <<181, 181, 1>>,
    <<186, 186, 1>>, <<192, 214, 1>>, <<216, 246, 1>>, <<248, 442, 1>>,
    <<444, 447, 1>>, <<452, 659, 1>>, <<661, 696, 1>>, <<704, 705, 1>>,
    <<736, 740, 1>>, <<837, 837, 1>>, <<880, 883, 1>>, <<886, 887, 1>>,
    <<890, 893, 1>>, <<895, 895, 1>>, <<902, 904, 2>>, <<905, 906, 1>>,
    <<908, 910, 2>>, <<911, 929, 1>>, <<931, 1013, 1>>, <<1015, 1153, 1>>,
    <<1162, 1327, 1>>, <<1329, 1366, 1>>, <<1376, 1416, 1>>,
    <<4256, 4293, 1>>, <<4295, 4295, 1>>, <<4301, 4301, 1>>,
    <<4304, 4346, 1>>, <<4349, 4351, 1>>, <<5024, 5109, 1>>,
    <<5112, 5117, 1>>, <<7296, 7304, 1>>, <<7312, 7354, 1>>,
    <<7357, 7359, 1>>, <<7424, 7615, 1>>, <<7680, 7957, 1>>,
    <<7960, 7965, 1>>, <<7968, 8005, 1>>, <<8008, 8013, 1>>,
    <<8016, 8023, 1>>, <<8025, 8031, 2>>, <<8032, 8061, 1>>,
    <<8064, 8116, 1>>, <<8118, 8124, 1>>, <<8126, 8126, 1>>,
    <<8130, 8132, 1>>, <<8134, 8140, 1>>, <<8144, 8147, 1>>,
    <<8150, 8155, 1>>, <<8160, 8172, 1>>, <<8178, 8180, 1>>,
    <<8182, 8188, 1>>, <<8305, 8305, 1>>, <<8319, 8319, 1>>,
    <<8336, 8348, 1>>, <<8450, 8450, 1>>, <<8455, 8455, 1>>,
    <<8458, 8467, 1>>, <<8469, 8469, 1>>, <<8473, 8477, 1>>,
    <<8484, 8490, 2>>, <<8491, 8493, 1>>, <<8495, 8500, 1>>,
    <<8505, 8505, 1>>, <<8508, 8511, 1>>, <<8517, 8521, 1>>,
    <<8526, 8526, 1>>, <<8544, 8575, 1>>, <<8579, 8580, 1>>,
    <<9398, 9449, 1>>, <<11264, 11492, 1>>, <<11499, 11502, 1>>,
    <<11506, 11507, 1>>, <<11520, 11557, 1>>, <<11559, 11559, 1>>,
    <<11565, 11565, 1>>, <<42560, 42605, 1>>, <<42624, 42653, 1>>,
    <<42786, 42887, 1>>, <<42891, 42894, 1>>, <<42896, 42954, 1>>,
    <<42960, 42961, 1>>, <<42963, 42965, 2>>, <<42966, 42969, 1>>,
    <<42997, 42998, 1>>, <<43000, 43002, 1>>, <<43824, 43866, 1>>,
    <<43868, 43880, 1>>, <<43888, 43967, 1>>, <<64256, 64262, 1>>,
    <<64275, 64279, 1>>, <<65313, 65338, 1>>, <<65345, 65370, 1>>,
    <<66560, 66639, 1>>, <<66736, 66771, 1>>, <<66776, 66811, 1>>,
    <<66928, 66938, 1>>, <<66940, 66954, 1>>, <<66956, 66962, 1>>,
    <<66964, 66965, 1>>, <<66967, 66977, 1>>, <<66979, 66993, 1>>,
    <<66995, 67001, 1>>, <<67003, 67004, 1>>, <<67456, 67456, 1>>,
    <<67459, 67461, 1>>, <<67463, 67504, 1>>, <<67506, 67514, 1>>,
    <<68736, 68786, 1>>, <<68800, 68850, 1>>, <<71840, 71903, 1>>,
    <<93760, 93823, 1>>, <<119808, 119892, 1>>, <<119894, 119964, 1>>,
    <<119966, 119967, 1>>, <<119970, 119970, 1>>, <<119973, 119974, 1>>,
    <<119977, 119980, 1>>, <<119982, 119993, 1>>, <<119995, 119997, 2>>,
    <<119998, 120003, 1>>, <<120005, 120069, 1>>, <<120071, 120074, 1>>,
    <<120077, 120084, 1>>, <<120086, 120092, 1>>, <<120094, 120121, 1>>,
    <<120123, 120126, 1>>, <<120128, 120132, 1>>, <<120134, 120134, 1>>,
    <<120138, 120144, 1>>, <<120146, 120485, 1>>, <<120488, 120512, 1>>,
    <<120514, 120538, 1>>, <<120540, 120570, 1>>, <<120572, 120596, 1>>,
    <<120598, 120628, 1>>, <<120630, 120654, 1>>, <<120656, 120686, 1>>,
    <<120688, 120712, 1>>, <<120714, 120744, 1>>, <<120746, 120770, 1>>,
    <<120772, 120779, 1>>, <<122624, 122633, 1>>, <<122635, 122654, 1>>,
    <<125184, 125251, 1>>, <<127280, 127305, 1>>, <<127312, 127337, 1>>,
    <<127344, 127369, 1>>>>

\* The case-ignorable characters (Unicode property Case_Ignorable), as ranges
\* <<first, last, step>>; the full stop is one of them.
CaseIgnorableRanges ==
  <<<<39, 39, 1>>, <<46, 46, 1>>, <<58, 58, 1>>, <<94, 96, 2>>,
    <<168, 168, 1>>, <<173, 175, 2>>, <<180, 180, 1>>, <<183, 184, 1>>,
    <<688, 879, 1>>, <<884, 885, 1>>, <<890, 890, 1>>, <<900, 901, 1>>,
    <<903, 903, 1>>, <<1155, 1161, 1>>, <<1369, 1369, 1>>, <<1375, 1375, 1>>,
    <<1425, 1469, 1>>, <<1471, 1473, 2>>, <<1474, 1476, 2>>,
    <<1477, 1479, 2>>, <<1524, 1524, 1>>, <<1536, 1541, 1>>,
    <<1552, 1562, 1>>, <<1564, 1564, 1>>, <<1600, 1600, 1>>,
    <<1611, 1631, 1>>, <<1648, 1648, 1>>, <<1750, 1757, 1>>,
    <<1759, 1768, 1>>, <<1770, 1773, 1>>, <<1807, 1809, 2>>,
    <<1840, 1866, 1>>, <<1958, 1968, 1>>, <<2027, 2037, 1>>,
    <<2042, 2042, 1>>, <<2045, 2045, 1>>, <<2070, 2093, 1>>,
    <<2137, 2139, 1>>, <<2184, 2184, 1>>, <<2192, 2193, 1>>,
    <<2200, 2207, 1>>, <<2249, 2306, 1>>, <<2362, 2364, 2>>,
    <<2369, 2376, 1>>, <<2381, 2381, 1>>, <<2385, 2391, 1>>,
    <<2402, 2403, 1>>, <<2417, 2417, 1>>, <<2433, 2433, 1>>,
    <<2492, 2492, 1>>, <<2497, 2500, 1>>, <<2509, 2509, 1>>,
    <<2530, 2531, 1>>, <<2558, 2558, 1>>, <<2561, 2562, 1>>,
    <<2620, 2620, 1>>, <<2625, 2626, 1>>, <<2631, 2632, 1>>,
    <<2635, 2637, 1>>, <<2641, 2641, 1>>, <<2672, 2673, 1>>,
    <<2677, 2677, 1>>, <<2689, 2690, 1>>, <<2748, 2748, 1>>,
    <<2753, 2757, 1>>, <<2759, 2760, 1>>, <<2765, 2765, 1>>,
    <<2786, 2787, 1>>, <<2810, 2815, 1>>, <<2817, 2817, 1>>,
    <<2876, 2876, 1>>, <<2879, 2881, 2>>, <<2882, 2884, 1>>,
    <<2893, 2893, 1>>, <<2901, 2902, 1>>, <<2914, 2915, 1>>,
    <<2946, 2946, 1>>, <<3008, 3008, 1>>, <<3021, 3021, 1>>,
    <<3072, 3072, 1>>, <<3076, 3076, 1>>, <<3132, 3134, 2>>,
    <<3135, 3136, 1>>, <<3142, 3144, 1>>, <<3146, 3149, 1>>,
    <<3157, 3158, 1>>, <<3170, 3171, 1>>, <<3201, 3201, 1>>,
    <<3260, 3260, 1>>, <<3263, 3263, 1>>, <<3270, 3270, 1>>,
    <<3276, 3277, 1>>, <<3298, 3299, 1>>, <<3328, 3329, 1>>,
    <<3387, 3388, 1>>, <<3393, 3396, 1>>, <<3405, 3405, 1>>,
    <<3426, 3427, 1>>, <<3457, 3457, 1>>, <<3530, 3530, 1>>,
    <<3538, 3540, 1>>, <<3542, 3542, 1>>, <<3633, 3633, 1>>,
    <<3636, 3642, 1>>, <<3654, 3662, 1>>, <<3761, 3761, 1>>,
    <<3764, 3772, 1>>, <<3782, 3784, 2>>, <<3785, 3789, 1>>,
    <<3864, 3865, 1>>, <<3893, 3897, 2>>, <<3953, 3966, 1>>,
    <<3968, 3972, 1>>, <<3974, 3975, 1>>, <<3981, 3991, 1>>,
    <<3993, 4028, 1>>, <<4038, 4038, 1>>, <<4141, 4144, 1>>,
    <<4146, 4151, 1>>, <<4153, 4154, 1>>, <<4157, 4158, 1>>,
    <<4184, 4185, 1>>, <<4190, 4192, 1>>, <<4209, 4212, 1>>,
    <<4226, 4226, 1>>, <<4229, 4230, 1>>, <<4237, 4237, 1>>,
    <<4253, 4253, 1>>, <<4348, 4348, 1>>, <<4957, 4959, 1>>,
    <<5906, 5908, 1>>, <<5938, 5939, 1>>, <<5970, 5971, 1>>,
    <<6002, 6003, 1>>, <<6068, 6069, 1>>, <<6071, 6077, 1>>,
    <<6086, 6086, 1>>, <<6089, 6099, 1>>, <<6103, 6103, 1>>,
    <<6109, 6109, 1>>, <<6155, 6159, 1>>, <<6211, 6211, 1>>,
    <<6277, 6278, 1>>, <<6313, 6313, 1>>, <<6432, 6434, 1>>,
    <<6439, 6440, 1>>, <<6450, 6450, 1>>, <<6457, 6459, 1>>,
    <<6679, 6680, 1>>, <<6683, 6683, 1>>, <<6742, 6744, 2>>,
    <<6745, 6750, 1>>, <<6752, 6754, 2>>, <<6757, 6764, 1>>,
    <<6771, 6780, 1>>, <<6783, 6783, 1>>, <<6823, 6823, 1>>,
    <<6832, 6862, 1>>, <<6912, 6915, 1>>, <<6964, 6966, 2>>,
    <<6967, 6970, 1>>, <<6972, 6972, 1>>, <<6978, 6978, 1>>,
    <<7019, 7027, 1>>, <<7040, 7041, 1>>, <<7074, 7077, 1>>,
    <<7080, 7081, 1>>, <<7083, 7085, 1>>, <<7142, 7144, 2>>,
    <<7145, 7145, 1>>, <<7149, 7151, 2>>, <<7152, 7153, 1>>,
    <<7212, 7219, 1>>, <<7222, 7223, 1>>, <<7288, 7293, 1>>,
    <<7376, 7378, 1>>, <<7380, 7392, 1>>, <<7394, 7400, 1>>,
    <<7405, 7405, 1>>, <<7412, 7412, 1>>, <<7416, 7417, 1>>,
    <<7468, 7530, 1>>, <<7544, 7544, 1>>, <<7579, 7679, 1>>,
    <<8125, 8127, 2>>, <<8128, 8129, 1>>, <<8141, 8143, 1>>,
    <<8157, 8159, 1>>, <<8173, 8175, 1>>, <<8189, 8190, 1>>,
    <<8203, 8207, 1>>, <<8216, 8217, 1>>, <<8228, 8228, 1>>,
    <<8231, 8231, 1>>, <<8234, 8238, 1>>, <<8288, 8292, 1>>,
    <<8294, 8303, 1>>, <<8305, 8305, 1>>, <<8319, 8319, 1>>,
    <<8336, 8348, 1>>, <<8400, 8432, 1>>, <<11388, 11389, 1>>,
    <<11503, 11505, 1>>, <<11631, 11631, 1>>, <<11647, 11647, 1>>,
    <<11744, 11775, 1>>, <<11823, 11823, 1>>, <<12293, 12293, 1>>,
    <<12330, 12333, 1>>, <<12337, 12341, 1>>, <<12347, 12347, 1>>,
    <<12441, 12446, 1>>, <<12540, 12542, 1>>, <<40981, 40981, 1>>,
    <<42232, 42237, 1>>, <<42508, 42508, 1>>, <<42607, 42610, 1>>,
    <<42612, 42621, 1>>, <<42623, 42623, 1>>, <<42652, 42655, 1>>,
    <<42736, 42737, 1>>, <<42752, 42785, 1>>, <<42864, 42864, 1>>,
    <<42888, 42890, 1>>, <<42994, 42996, 1>>, <<43000, 43001, 1>>,
    <<43010, 43010, 1>>, <<43014, 43014, 1>>, <<43019, 43019, 1>>,
    <<43045, 43046, 1>>, <<43052, 43052, 1>>, <<43204, 43205, 1>>,
    <<43232, 43249, 1>>, <<43263, 43263, 1>>, <<43302, 43309, 1>>,
    <<43335, 43345, 1>>, <<43392, 43394, 1>>, <<43443, 43443, 1>>,
    <<43446, 43449, 1>>, <<43452, 43453, 1>>, <<43471, 43471, 1>>,
    <<43493, 43494, 1>>, <<43561, 43566, 1>>, <<43569, 43570, 1>>,
    <<43573, 43574, 1>>, <<43587, 43587, 1>>, <<43596, 43596, 1>>,
    <<43632, 43632, 1>>, <<43644, 43644, 1>>, <<43696, 43698, 2>>,
    <<43699, 43700, 1>>, <<43703, 43704, 1>>, <<43710, 43711, 1>>,
    <<43713, 43713, 1>>, <<43741, 43741, 1>>, <<43756, 43757, 1>>,
    <<43763, 43764, 1>>, <<43766, 43766, 1>>, <<43867, 43871, 1>>,
    <<43881, 43883, 1>>, <<44005, 44005, 1>>, <<44008, 44008, 1>>,
    <<44013, 44013, 1>>, <<64286, 64286, 1>>, <<64434, 64450, 1>>,
    <<65024, 65039, 1>>, <<65043, 65043, 1>>, <<65056, 65071, 1>>,
    <<65106, 65106, 1>>, <<65109, 65109, 1>>, <<65279, 65279, 1>>,
    <<65287, 65287, 1>>, <<65294, 65294, 1>>, <<65306, 65306, 1>>,
    <<65342, 65344, 2>>, <<65392, 65392, 1>>, <<65438, 65439, 1>>,
    <<65507, 65507, 1>>, <<65529, 65531, 1>>, <<66045, 66045, 1>>,
    <<66272, 66272, 1>>, <<66422, 66426, 1>>, <<67456, 67461, 1>>,
    <<67463, 67504, 1>>, <<67506, 67514, 1>>, <<68097, 68099, 1>>,
    <<68101, 68102, 1>>, <<68108, 68111, 1>>, <<68152, 68154, 1>>,
    <<68159, 68159, 1>>, <<68325, 68326, 1>>, <<68900, 68903, 1>>,
    <<69291, 69292, 1>>, <<69446, 69456, 1>>, <<69506, 69509, 1>>,
    <<69633, 69633, 1>>, <<69688, 69702, 1>>, <<69744, 69744, 1>>,
    <<69747, 69748, 1>>, <<69759, 69761, 1>>, <<69811, 69814, 1>>,
    <<69817, 69818, 1>>, <<69821, 69821, 1>>, <<69826, 69826, 1>>,
    <<69837, 69837, 1>>, <<69888, 69890, 1>>, <<69927, 69931, 1>>,
    <<69933, 69940, 1>>, <<70003, 70003, 1>>, <<70016, 70017, 1>>,
    <<70070, 70078, 1>>, <<70089, 70092, 1>>, <<70095, 70095, 1>>,
    <<70191, 70193, 1>>, <<70196, 70198, 2>>, <<70199, 70199, 1>>,
    <<70206, 70206, 1>>, <<70367, 70367, 1>>, <<70371, 70378, 1>>,
    <<70400, 70401, 1>>, <<70459, 70460, 1>>, <<70464, 70464, 1>>,
    <<70502, 70508, 1>>, <<70512, 70516, 1>>, <<70712, 70719, 1>>,
    <<70722, 70724, 1>>, <<70726, 70726, 1>>, <<70750, 70750, 1>>,
    <<70835, 70840, 1>>, <<70842, 70842, 1>>, <<70847, 70848, 1>>,
    <<70850, 70851, 1>>, <<71090, 71093, 1>>, <<71100, 71101, 1>>,
    <<71103, 71104, 1>>, <<71132, 71133, 1>>, <<71219, 71226, 1>>,
    <<71229, 71231, 2>>, <<71232, 71232, 1>>, <<71339, 71341, 2>>,
    <<71344, 71349, 1>>, <<71351, 71351, 1>>, <<71453, 71455, 1>>,
    <<71458, 71461, 1>>, <<71463, 71467, 1>>, <<71727, 71735, 1>>,
    <<71737, 71738, 1>>, <<71995, 71996, 1>>, <<71998, 71998, 1>>,
    <<72003, 72003, 1>>, <<72148, 72151, 1>>, <<72154, 72155, 1>>,
    <<72160, 72160, 1>>, <<72193, 72202, 1>>, <<72243, 72248, 1>>,
    <<72251, 72254, 1>>, <<72263, 72263, 1>>, <<72273, 72278, 1>>,
    <<72281, 72283, 1>>, <<72330, 72342, 1>>, <<72344, 72345, 1>>,
    <<72752, 72758, 1>>, <<72760, 72765, 1>>, <<72767, 72767, 1>>,
    <<72850, 72871, 1>>, <<72874, 72880, 1>>, <<72882, 72883, 1>>,
    <<72885, 72886, 1>>, <<73009, 73014, 1>>, <<73018, 73020, 2>>,
    <<73021, 73023, 2>>, <<73024, 73029, 1>>, <<73031, 73031, 1>>,
    <<73104, 73105, 1>>, <<73109, 73111, 2>>, <<73459, 73460, 1>>,
    <<78896, 78904, 1>>, <<92912, 92916, 1>>, <<92976, 92982, 1>>,
    <<92992, 92995, 1>>, <<94031, 94031, 1>>, <<94095, 94111, 1>>,
    <<94176, 94177, 1>>, <<94179, 94180, 1>>, <<110576, 110579, 1>>,
    <<110581, 110587, 1>>, <<110589, 110590, 1>>, <<113821, 113822, 1>>,
    <<113824, 113827, 1>>, <<118528, 118573, 1>>, <<118576, 118598, 1>>,
    <<119143, 119145, 1>>, <<119155, 119170, 1>>, <<119173, 119179, 1>>,
    <<119210, 119213, 1>>, <<119362, 119364, 1>>, <<121344, 121398, 1>>,
    <<121403, 121452, 1>>, <<121461, 121461, 1>>, <<121476, 121476, 1>>,
    <<121499, 121503, 1>>, <<121505, 121519, 1>>, <<122880, 122886, 1>>,
    <<122888, 122904, 1>>, <<122907, 122913, 1>>, <<122915, 122916, 1>>,
    <<122918, 122922, 1>>, <<123184, 123197, 1>>, <<123566, 123566, 1>>,
    <<123628, 123631, 1>>, <<125136, 125142, 1>>, <<125252, 125259, 1>>,
    <<127995, 127999, 1>>, <<917505, 917505, 1>>, <<917536, 917631, 1>>,
    <<917760, 917999, 1>>>>

\* c is one of the characters of the ranges.
InRanges(c, ranges) ==
  \E k \in 1..Len(ranges) :
    /\ ranges[k][1] <= c /\ c <= ranges[k][2]
    /\ (c - ranges[k][1]) % ranges[k][3] = 0

IsCased(c) == InRanges(c, CasedRanges)
IsCaseIgnorable(c) == InRanges(c, CaseIgnorableRanges)

\* str.lower() on the string of one character c: U+0130 lowers to the two
\* characters U+0069 U+0307, a lone U+03A3 to U+03C3.
LowerChar(c) ==
  IF c = 304 THEN <<105, 775>>
  ELSE IF c = 931 THEN <<963>>
  ELSE IF InRanges(c, LowerMappings)
    THEN LET k == CHOOSE k \in 1..Len(LowerMappings) :
                    InRanges(c, <<LowerMappings[k]>>)
         IN  <<c + LowerMappings[k][4]>>
  ELSE <<c>>

\* The capital sigma at position i of s is a final sigma: the nearest
\* character before it that is not case-ignorable exists and is cased, and
\* the nearest such character after it, if any, is not cased.
FinalSigma(s, i) ==
  LET before == {j \in 1..(i - 1) : ~IsCaseIgnorable(s[j])}
      after == {j \in (i + 1)..Len(s) : ~IsCaseIgnorable(s[j])}
  IN  /\ before # {}
      /\ IsCased(s[CHOOSE j \in before : \A l \in before : l <= j])
      /\ \/ after = {}
         \/ ~IsCased(s[CHOOSE j \in after : \A l \in after : j <= l])

\* Lower without the case folding: the suffix is compared as written.
LowerAsWritten(s) == s

RECURSIVE LowerFrom(_, _)
\* str.lower() of s from position i on.
LowerFrom(s, i) ==
  IF i > Len(s) THEN <<>>
  ELSE (IF s[i] = 931 /\ FinalSigma(s, i) THEN <<962>> ELSE LowerChar(s[i]))
         \o LowerFrom(s, i + 1)

\* str.lower()
Lower(s) == LowerFrom(s, 1)

\* dict.get(key, default)
Get(d, key, default) == IF key \in DOMAIN d THEN d[key] ELSE default

\* get_class_name: COCO class id to thermal class name.
get_class_name(class_id) ==
  CASE class_id = 0 -> "person"
    [] class_id = 2 -> "car"
    [] class_id = 3 -> "car"
    [] class_id = 5 -> "car"
    [] class_id = 7 -> "car"
    [] OTHER -> "unknown"

\* is_class_enabled without the option lookups: every thermal class passes.
is_class_enabled_always(class_name, opts) == class_name \in {"person", "car"}

\* is_class_enabled
is_class_enabled(class_name, opts) ==
  IF class_name = "person" THEN Get(opts, "detectPerson", TRUE)
  ELSE IF class_name = "car" THEN Get(opts, "detectCar", TRUE)
  ELSE FALSE

-----------------------------------------------------------------------------
(* The event emitter.                                                      *)

\* log_info's log_entry, stamped with the time.time() reading t
log_info(message, t) ==
  [type |-> "log", level |-> "info", message |-> message,
   timestamp |-> TrueDiv(t, 1)]

\* log_warning's log_entry; no method of the service calls log_warning
log_warning(message, t) ==
  [type |-> "log", level |-> "warning", message |-> message,
   timestamp |-> TrueDiv(t, 1)]

\* log_error writing level warning, as log_warning does.
log_error_as_warning(message, t) ==
  [type |-> "log", level |-> "warning", message |-> message,
   timestamp |-> TrueDiv(t, 1)]

\* log_error's log_entry
log_error(message, t) ==
  [type |-> "log", level |-> "error", message |-> message,
   timestamp |-> TrueDiv(t, 1)]

\* send_annotated_image_path stamping media time 0, as process_image does
\* for its detection_result.
send_annotated_image_path_media_time(image_path, t) ==
  [type |-> "annotated_image", path |-> image_path, timestamp |-> TrueDiv(0, 1)]

\* send_annotated_image_path's output
send_annotated_image_path(image_path, t) ==
  [type |-> "annotated_image", path |-> image_path, timestamp |-> TrueDiv(t, 1)]

\* send_results' output: the timestamp is the caller's argument
send_results(res, timestamp) ==
  [type |-> "detection_result", timestamp |-> timestamp, results |-> res]

-----------------------------------------------------------------------------
(* detect_objects.                                                         *)

\* The frame stride of process_video.
SampleEvery == 5

\* The detection dict built from one raw detection (lines 153-176); the
\* confidence is read by the caller.  Geometry is in half pixels, so
\* xc - bw/2 is (2*xc - bw) / 4 pixels.
Detection(raw, confidence_val) ==
  LET x1 == Trunc(2 * raw.xc - raw.bw, 4)
      y1 == Trunc(2 * raw.yc - raw.bh, 4)
      x2 == Trunc(2 * raw.xc + raw.bw, 4)
      y2 == Trunc(2 * raw.yc + raw.bh, 4)
  IN  [x |-> x1, y |-> y1, width |-> x2 - x1, height |-> y2 - y1,
       confidence |-> confidence_val,
       class |-> get_class_name(raw.cls), class_id |-> raw.cls,
       center_x |-> Trunc(raw.xc, 2), center_y |-> Trunc(raw.yc, 2)]

\* The index into preds.conf that the loop body reads (line 160), 1-based:
\* the number of detections accepted so far.
ConfIndex(i, detections) == Len(detections) + 1

\* Accepting a detection at the front of the list.
AcceptFirst(detections, detection) == <<detection>> \o detections

\* detections.append(detection) (line 178)
Accept(detections, detection) == Append(detections, detection)

\* The loop over zip(preds.xywh, preds.cls) from entry i on (lines 152-178).
RECURSIVE BoxLoop(_, _, _, _)
BoxLoop(boxes, i, detections, opts) ==
  IF i > Len(boxes) THEN detections
  ELSE LET raw == boxes[i]
           class_name == get_class_name(raw.cls)
           confidence_val == boxes[ConfIndex(i, detections)].conf
       IN  IF ~is_class_enabled(class_name, opts)
             THEN BoxLoop(boxes, i + 1, detections, opts)
             ELSE BoxLoop(boxes, i + 1,
                          Accept(detections, Detection(raw, confidence_val)), opts)

\* detect_objects returning the image shape with the error too.
detect_objects_error_with_shape(outcome, shape, opts, t) ==
  IF outcome.kind = "raise"
    THEN [results |-> [detections |-> <<>>, image_shape |-> shape,
                       error |-> "predict failed"],
          log |-> <<log_error("Detection error", t)>>]
    ELSE [results |->
            [detections |-> IF outcome.kind = "none" THEN <<>>
                            ELSE BoxLoop(outcome.boxes, 1, <<>>, opts),
             image_shape |-> shape,
             timestamp |-> TrueDiv(t, 1)],
          log |-> <<>>]

\* detect_objects on a frame of shape `shape`, given what model.predict does:
\* the dict it returns and the events it emits.
detect_objects(outcome, shape, opts, t) ==
  IF outcome.kind = "raise"
    THEN [results |-> [detections |-> <<>>, error |-> "predict failed"],
          log |-> <<log_error("Detection error", t)>>]
    ELSE [results |->
            [detections |-> IF outcome.kind = "none" THEN <<>>
                            ELSE BoxLoop(outcome.boxes, 1, <<>>, opts),
             image_shape |-> shape,
             timestamp |-> TrueDiv(t, 1)],
          log |-> <<>>]

-----------------------------------------------------------------------------
(* The run.                                                                *)

EmptyDict == [k \in {} |-> TRUE]

Init ==
  /\ pc = "main"
  /\ options = EmptyDict
  /\ model = "none"
  /\ events = <<>>
  /\ plain = <<>>
  /\ clock = 1000
  /\ exit_status = -1
  /\ image = <<>>
  /\ preds = [kind |-> "unset", boxes |-> <<>>]
  /\ results = [detections |-> <<>>]
  /\ cap = [state |-> "none", frames |-> 0, pos |-> 0]
  /\ frame_count = 0
  /\ total_frames = 0
  /\ fps = 0
  /\ calls = <<>>
  /\ files = {}

\* process_media returns to main, which returns: the process ends with status 0.
Return == pc' = "done" /\ exit_status' = 0

\* sys.exit with status 0.
Exit0 == pc' = "exited" /\ exit_status' = 0

\* sys.exit(1)
Exit1 == pc' = "exited" /\ exit_status' = 1

\* main with no argument (lines 326-328)
MainUsage ==
  /\ pc = "main"
  /\ plain' = Append(plain, "Usage: python detection_service.py <options_json>")
  /\ Exit1
  /\ UNCHANGED <<options, model, events, clock, image, preds, results, cap,
                 frame_count, total_frames, fps, calls, files>>

\* main when json.loads raises JSONDecodeError (lines 331, 335-337)
MainBadJson ==
  /\ pc = "main"
  /\ plain' = Append(plain, "Error: Invalid JSON options")
  /\ Exit1
  /\ UNCHANGED <<options, model, events, clock, image, preds, results, cap,
                 frame_count, total_frames, fps, calls, files>>

\* main when json.loads succeeds, and __init__ up to load_model (lines 331-332,
\* 17-26)
MainParse ==
  /\ pc = "main"
  /\ \E o \in OptionDicts : options' = o
  /\ pc' = "load_model"
  /\ UNCHANGED <<model, events, plain, clock, exit_status, image, preds, results,
                 cap, frame_count, total_frames, fps, calls, files>>

\* load_model (lines 28-43): the custom weights load, the pre-trained weights
\* load, or YOLO raises.
LoadModel ==
  /\ pc = "load_model"
  /\ \E outcome \in {"custom", "pretrained", "fail"} :
       IF outcome = "fail"
         THEN /\ events' = Append(events, log_error("Failed to load model", clock))
              /\ Exit1
              /\ model' = model
         ELSE /\ events' = Append(events,
                   log_info(IF outcome = "custom"
                              THEN "Loaded custom thermal model"
                              ELSE "Loaded pre-trained model", clock))
              /\ model' = outcome
              /\ pc' = "process_media"
              /\ exit_status' = exit_status
  /\ clock' = clock + 1
  /\ UNCHANGED <<options, plain, image, preds, results, cap, frame_count,
                 total_frames, fps, calls, files>>

\* process_media (lines 50-65); a missing mediaPath key raises KeyError, which
\* main catches (lines 338-340).
ProcessMedia ==
  /\ pc = "process_media"
  /\ IF "mediaPath" \notin DOMAIN options
       THEN /\ plain' = Append(plain, "Error: 'mediaPath'")
            /\ Exit1
            /\ UNCHANGED <<events, clock>>
       ELSE LET media_path == options["mediaPath"]
                file_ext == Lower(media_path.suffix)
            IN  /\ plain' = plain
                /\ IF ~media_path.exists
                     THEN /\ events' = Append(events,
                                 log_error("Media file not found", clock))
                          /\ clock' = clock + 1
                          /\ Return
                     ELSE IF file_ext \in ImageSuffixes
                       THEN /\ pc' = "process_image"
                            /\ UNCHANGED <<events, clock, exit_status>>
                     ELSE IF file_ext \in VideoSuffixes
                       THEN /\ pc' = "process_video"
                            /\ UNCHANGED <<events, clock, exit_status>>
                     ELSE /\ events' = Append(events,
                                 log_error("Unsupported file format", clock))
                          /\ clock' = clock + 1
                          /\ Return
  /\ UNCHANGED <<options, model, image, preds, results, cap, frame_count,
                 total_frames, fps, calls, files>>

-----------------------------------------------------------------------------
(* process_image.                                                          *)

\* process_image with send_results called before save_annotated_image.
ImageStepsSendFirst == <<"image_detect", "image_draw", "image_send", "image_save",
                         "image_end">>

\* The statements of process_image after the image is loaded, in program
\* order (lines 81, 84, 85, 88, 90).
ImageSteps == <<"image_detect", "image_draw", "image_save", "image_send",
                "image_end">>

\* The statement that follows statement p of process_image.
AfterImageStep(p) ==
  ImageSteps[(CHOOSE k \in 1..Len(ImageSteps) : ImageSteps[k] = p) + 1]

\* process_image without the test of the image being None: the run goes on
\* to detect_objects whatever cv2.imread returned.
LoadImageUnchecked ==
  /\ pc = "process_image"
  /\ \E loaded \in BOOLEAN : image' = IF loaded THEN ImageShape ELSE <<>>
  /\ events' = events \o <<log_info("Processing image", clock),
                           log_info("Image loaded successfully", clock + 1)>>
  /\ pc' = ImageSteps[1]
  /\ clock' = clock + 2
  /\ UNCHANGED <<options, model, plain, exit_status, preds, results, cap,
                 frame_count, total_frames, fps, calls, files>>

\* process_image up to the decoded image (lines 70-78): cv2.imread returns
\* the image or None.
LoadImage ==
  /\ pc = "process_image"
  /\ \E loaded \in BOOLEAN :
       IF loaded
         THEN /\ image' = ImageShape
              /\ events' = events \o <<log_info("Processing image", clock),
                                       log_info("Image loaded successfully", clock + 1)>>
              /\ pc' = ImageSteps[1]
              /\ exit_status' = exit_status
         ELSE /\ image' = <<>>
              /\ events' = events \o <<log_info("Processing image", clock),
                                       log_error("Failed to load image", clock + 1)>>
              /\ Return
  /\ clock' = clock + 2
  /\ UNCHANGED <<options, model, plain, preds, results, cap, frame_count,
                 total_frames, fps, calls, files>>

\* results = self.detect_objects(image) (line 81)
DetectImage ==
  /\ pc = "image_detect"
  /\ \E outcome \in PredictOutcomes(MaxRaw) :
       LET d == detect_objects(outcome, image, options, clock)
       IN  /\ preds' = outcome
           /\ results' = d.results
           /\ events' = events \o d.log
           /\ calls' = Append(calls, [frame |-> 0, raised |-> outcome.kind = "raise"])
  /\ clock' = clock + 1
  /\ pc' = AfterImageStep("image_detect")
  /\ UNCHANGED <<options, model, plain, exit_status, image, cap, frame_count,
                 total_frames, fps, files>>

\* The events of draw_detection_boxes (lines 213, 227, 251), first reading t.
draw_detection_boxes(detections, t) ==
  <<log_info("Drawing detection boxes on image", t)>>
    \o [i \in 1..Len(detections) |-> log_info("Detection", t + i)]
    \o <<log_info("Detection boxes drawn successfully", t + Len(detections) + 1)>>

\* annotated_image = self.draw_detection_boxes(...) (line 84)
DrawBoxes ==
  /\ pc = "image_draw"
  /\ events' = events \o draw_detection_boxes(results.detections, clock)
  /\ clock' = clock + Len(results.detections) + 2
  /\ pc' = AfterImageStep("image_draw")
  /\ UNCHANGED <<options, model, plain, exit_status, image, preds, results, cap,
                 frame_count, total_frames, fps, calls, files>>

\* The output path with the original name kept: the annotated file replaces
\* nothing of its own.
OutputPathSameName(original_path) == <<"output/", original_path.stem, ".jpg">>

\* The output path of save_annotated_image (lines 258-263).
OutputPath(original_path) == <<"output/", original_path.stem, "_detected", ".jpg">>

\* save_annotated_image (lines 254-273).  mkdir or cv2.imwrite raises; or
\* imwrite returns, having written the file or not (its result is not read).
save_annotated_image ==
  /\ pc = "image_save"
  /\ LET output_path == OutputPath(options["mediaPath"])
     IN  \E outcome \in {"written", "not_written", "raise"} :
           IF outcome = "raise"
             THEN /\ events' = Append(events,
                         log_error("Failed to save annotated image", clock))
                  /\ clock' = clock + 1
                  /\ files' = files
             ELSE /\ files' = IF outcome = "written"
                                THEN files \cup {output_path} ELSE files
                  /\ events' = events \o
                       <<log_info("Annotated image saved", clock),
                         send_annotated_image_path(output_path, clock + 1)>>
                  /\ clock' = clock + 2
  /\ pc' = AfterImageStep("image_save")
  /\ UNCHANGED <<options, model, plain, exit_status, image, preds, results, cap,
                 frame_count, total_frames, fps, calls>>

\* The timestamp process_image passes to send_results (line 88).
ImageTimestamp == TrueDiv(0, 1)

\* self.send_results(results, 0) (line 88)
SendImageResults ==
  /\ pc = "image_send"
  /\ events' = Append(events, send_results(results, ImageTimestamp))
  /\ pc' = AfterImageStep("image_send")
  /\ UNCHANGED <<options, model, plain, clock, exit_status, image, preds, results,
                 cap, frame_count, total_frames, fps, calls, files>>

\* The closing log of process_image (line 90), and the return to main.
FinishImage ==
  /\ pc = "image_end"
  /\ events' = Append(events, log_info("Image processing completed", clock))
  /\ clock' = clock + 1
  /\ Return
  /\ UNCHANGED <<options, model, plain, image, preds, results, cap, frame_count,
                 total_frames, fps, calls, files>>

-----------------------------------------------------------------------------
(* process_video.                                                          *)

\* process_video up to the loop (lines 98-107): the capture opens or not; an
\* opened capture reports a frame count and a frame rate.
OpenVideo ==
  /\ pc = "process_video"
  /\ \E opened \in BOOLEAN :
       IF opened
         THEN /\ \E n \in 0..MaxFrames :
                   cap' = [state |-> "open", frames |-> n, pos |-> 0]
              /\ \E tf \in TotalFrameCounts : total_frames' = tf
              /\ \E r \in FpsValues : fps' = r
              /\ events' = Append(events, log_info("Processing video", clock))
              /\ clock' = clock + 1
              /\ pc' = "video_read"
              /\ exit_status' = exit_status
         ELSE /\ events' = events \o <<log_info("Processing video", clock),
                                       log_error("Failed to open video", clock + 1)>>
              /\ clock' = clock + 2
              /\ Return
              /\ UNCHANGED <<cap, total_frames, fps>>
  /\ frame_count' = 0
  /\ UNCHANGED <<options, model, plain, image, preds, results, calls, files>>

\* shouldProcess: the test of line 115
ShouldProcess(i) == i % SampleEvery = 0

\* cap.read() returns a frame (lines 110-115)
ReadFrame ==
  /\ pc = "video_read"
  /\ cap.pos < cap.frames
  /\ cap' = [cap EXCEPT !.pos = @ + 1]
  /\ pc' = IF ShouldProcess(frame_count) THEN "video_detect" ELSE "video_progress"
  /\ UNCHANGED <<options, model, events, plain, clock, exit_status, image, preds,
                 results, frame_count, total_frames, fps, calls, files>>

\* cap.read() signals end-of-stream: break, release, closing log (lines 110-112,
\* 128-129)
EndOfStream ==
  /\ pc = "video_read"
  /\ cap.pos >= cap.frames
  /\ cap' = [cap EXCEPT !.state = "released"]
  /\ events' = Append(events, log_info("Video processing completed", clock))
  /\ clock' = clock + 1
  /\ Return
  /\ UNCHANGED <<options, model, plain, image, preds, results, frame_count,
                 total_frames, fps, calls, files>>

\* FrameTimestamp with the sign of the frame index lost.
FrameTimestampNegated(i, rate) == TrueDiv(0 - i, rate)

\* The timestamp process_video passes to send_results (line 117).
FrameTimestamp(i, rate) == TrueDiv(i, rate)

\* A division that never raises.
NeverRaises(divisor) == FALSE

\* frame_count / fps raises ZeroDivisionError (line 117).
TimestampRaises(divisor) == divisor = 0

\* frame_count / total_frames raises ZeroDivisionError (line 122).
ProgressRaises(divisor) == divisor = 0

\* Lines 116-117 on a sampled frame: detect_objects, then frame_count / fps,
\* which raises ZeroDivisionError when fps is 0; the handler of lines 131-132
\* logs it and process_video returns.
DetectFrame ==
  /\ pc = "video_detect"
  /\ \E outcome \in PredictOutcomes(MaxRawVideo) :
       LET d == detect_objects(outcome, ImageShape, options, clock)
       IN  /\ preds' = outcome
           /\ results' = d.results
           /\ calls' = Append(calls, [frame |-> frame_count,
                                      raised |-> outcome.kind = "raise"])
           /\ IF TimestampRaises(fps)
                THEN /\ events' = events \o d.log \o
                          <<log_error("Error processing video", clock + 1)>>
                     /\ clock' = clock + 2
                     /\ Return
                ELSE /\ events' = events \o d.log \o
                          <<send_results(d.results, FrameTimestamp(frame_count, fps))>>
                     /\ clock' = clock + 1
                     /\ pc' = "video_progress"
                     /\ exit_status' = exit_status
  /\ UNCHANGED <<options, model, plain, image, cap, frame_count, total_frames,
                 fps, files>>

\* Lines 119-126: count the frame and log the progress; frame_count /
\* total_frames raises ZeroDivisionError when total_frames is 0.
Progress ==
  /\ pc = "video_progress"
  /\ frame_count' = frame_count + 1
  /\ IF ProgressRaises(total_frames)
       THEN /\ events' = Append(events, log_error("Error processing video", clock))
            /\ Return
       ELSE /\ events' = Append(events, log_info("Progress", clock))
            /\ pc' = "video_read"
            /\ exit_status' = exit_status
  /\ clock' = clock + 1
  /\ UNCHANGED <<options, model, plain, image, preds, results, cap, total_frames,
                 fps, calls, files>>

-----------------------------------------------------------------------------

Next ==
  \/ MainUsage
  \/ MainBadJson
  \/ MainParse
  \/ LoadModel
  \/ ProcessMedia
  \/ LoadImage
  \/ DetectImage
  \/ DrawBoxes
  \/ save_annotated_image
  \/ SendImageResults
  \/ FinishImage
  \/ OpenVideo
  \/ ReadFrame
  \/ EndOfStream
  \/ DetectFrame
  \/ Progress

Spec == Init /\ [][Next]_vars

-----------------------------------------------------------------------------
(* detect_objects alone, on a wider range of detector outputs.             *)

\* largest centre coordinate and extent of a box, in half pixels
MaxHalfPixels == 6
\* longest list of raw detections
MaxList == 3

\* Single boxes: every centre and extent up to MaxHalfPixels, and the box
\* xc=100, yc=100, w=40, h=80.
GeometryBoxes ==
  {[xc |-> a, yc |-> b, bw |-> w, bh |-> h] :
     a \in 0..MaxHalfPixels, b \in 0..MaxHalfPixels,
     w \in 0..MaxHalfPixels, h \in 0..MaxHalfPixels}
    \cup Boxes

\* Two boxes that differ in every coordinate, for the lists.
ListBoxes == Boxes \cup {[xc |-> 13, yc |-> 7, bw |-> 5, bh |-> 2]}

\* The raw detections of the lists: the first box at confidence 90, the
\* second at 50, each of every class.
ListRawDetections ==
  {[xc |-> b.xc, yc |-> b.yc, bw |-> b.bw, bh |-> b.bh, cls |-> c,
    conf |-> IF b \in Boxes THEN 90 ELSE 50] :
     b \in ListBoxes, c \in ClassIds}

\* The calls of detect_objects: the options and what model.predict returns.
DetectCases ==
  {[opts |-> EmptyDict,
    boxes |-> <<[xc |-> b.xc, yc |-> b.yc, bw |-> b.bw, bh |-> b.bh,
                 cls |-> 0, conf |-> 90]>>] : b \in GeometryBoxes}
    \cup {[opts |-> f, boxes |-> l] :
            f \in FlagDicts, l \in SeqsUpTo(ListRawDetections, MaxList)}

InitDetect ==
  /\ pc = "detect_objects"
  /\ \E c \in DetectCases :
       /\ options = c.opts
       /\ preds = [kind |-> "boxes", boxes |-> c.boxes]
  /\ model = "pretrained"
  /\ events = <<>>
  /\ plain = <<>>
  /\ clock = 1000
  /\ exit_status = -1
  /\ image = ImageShape
  /\ results = [detections |-> <<>>]
  /\ cap = [state |-> "none", frames |-> 0, pos |-> 0]
  /\ frame_count = 0
  /\ total_frames = 0
  /\ fps = 0
  /\ calls = <<>>
  /\ files = {}

\* One call of detect_objects on the image, model.predict returning preds.
CallDetectObjects ==
  /\ pc = "detect_objects"
  /\ LET d == detect_objects(preds, image, options, clock)
     IN  /\ results' = d.results
         /\ events' = events \o d.log
  /\ calls' = Append(calls, [frame |-> 0, raised |-> preds.kind = "raise"])
  /\ clock' = clock + 1
  /\ pc' = "returned"
  /\ UNCHANGED <<options, model, plain, exit_status, image, preds, cap,
                 frame_count, total_frames, fps, files>>

NextDetect == CallDetectObjects

SpecDetect == InitDetect /\ [][NextDetect]_vars

-----------------------------------------------------------------------------
(* The three log methods called directly on a constructed service.  main  *)
(* reaches log_info and log_error only; log_warning is public and has no  *)
(* call site in the service.                                              *)

\* largest number of log calls made on the service
MaxLogCalls == 3

\* The messages of the calls.
LogMessages == {"low light", "frame dropped"}

\* The service after __init__ (lines 17-26) when load_model succeeded: the
\* options stored, the model loaded, its log event printed.
InitLog ==
  /\ pc = "constructed"
  /\ options = EmptyDict
  /\ \E outcome \in {"custom", "pretrained"} :
       /\ model = outcome
       /\ events = <<log_info(IF outcome = "custom"
                                THEN "Loaded custom thermal model"
                                ELSE "Loaded pre-trained model", 1000)>>
  /\ plain = <<>>
  /\ clock = 1001
  /\ exit_status = -1
  /\ image = <<>>
  /\ preds = [kind |-> "unset", boxes |-> <<>>]
  /\ results = [detections |-> <<>>]
  /\ cap = [state |-> "none", frames |-> 0, pos |-> 0]
  /\ frame_count = 0
  /\ total_frames = 0
  /\ fps = 0
  /\ calls = <<>>
  /\ files = {}

\* One call of log_info: one event printed, one reading of time.time().
CallLogInfo ==
  /\ pc = "constructed" /\ Len(events) < 1 + MaxLogCalls
  /\ \E message \in LogMessages :
       events' = Append(events, log_info(message, clock))
  /\ clock' = clock + 1
  /\ UNCHANGED <<pc, options, model, plain, exit_status, image, preds, results,
                 cap, frame_count, total_frames, fps, calls, files>>

\* One call of log_error.
CallLogError ==
  /\ pc = "constructed" /\ Len(events) < 1 + MaxLogCalls
  /\ \E message \in LogMessages :
       events' = Append(events, log_error(message, clock))
  /\ clock' = clock + 1
  /\ UNCHANGED <<pc, options, model, plain, exit_status, image, preds, results,
                 cap, frame_count, total_frames, fps, calls, files>>

\* One call of log_warning.
CallLogWarning ==
  /\ pc = "constructed" /\ Len(events) < 1 + MaxLogCalls
  /\ \E message \in LogMessages :
       events' = Append(events, log_warning(message, clock))
  /\ clock' = clock + 1
  /\ UNCHANGED <<pc, options, model, plain, exit_status, image, preds, results,
                 cap, frame_count, total_frames, fps, calls, files>>

NextLog == CallLogInfo \/ CallLogError \/ CallLogWarning

SpecLog == InitLog /\ [][NextLog]_vars

-----------------------------------------------------------------------------
(* Vocabulary of the properties.                                           *)

\* Positions in the event trace of the events of type t.
EventsOfType(t) == {i \in 1..Len(events) : events[i].type = t}

\* A still image was decoded in this run.
ImageDecoded == image # <<>>

\* A video capture was opened in this run.
VideoOpened == cap.state # "none"

\* The run is over.
Finished == pc \in {"done", "exited"}

IsErrorLog(e) == e.type = "log" /\ e.level = "error"

-----------------------------------------------------------------------------
(* C1: event order of a still image.                                       *)

\* C1 (as claimed): for a decoded image no annotated_image event appears in
\* the trace unless a detection_result event precedes it.
C1_DetectionResultFirst ==
  ImageDecoded =>
    \A j \in EventsOfType("annotated_image") :
      \E i \in EventsOfType("detection_result") : i < j

\* C1 (amended): for a decoded image the annotated_image event, emitted when
\* saving does not raise, comes strictly before the detection_result event:
\* no annotated_image event follows the detection_result event, and a finished
\* run has the trace log*, annotated_image (at most one), detection_result, log.
C1_AnnotatedImageFirst ==
  ImageDecoded =>
    /\ \A i \in EventsOfType("detection_result") :
         \A j \in EventsOfType("annotated_image") : j < i
    /\ Finished =>
         LET n == Len(events)
         IN  /\ n >= 2
             /\ events[n].type = "log"
             /\ events[n - 1].type = "detection_result"
             /\ \A k \in 1..(n - 2) :
                  \/ events[k].type = "log"
                  \/ k = n - 2 /\ events[k].type = "annotated_image"

\* C1 witness: a finished image run with a detection, whose annotated_image
\* event was emitted and whose detection_result event follows it.
C1_Witness ==
  /\ ImageDecoded /\ Finished
  /\ Len(results.detections) >= 1
  /\ \E j \in EventsOfType("annotated_image") :
       \E i \in EventsOfType("detection_result") : j < i

-----------------------------------------------------------------------------
(* C2: only enabled thermal classes are reported.                          *)

\* The detection records of the last detect_objects call and of every
\* detection_result event.
ReportedDetections ==
  {results.detections[k] : k \in 1..Len(results.detections)}
    \cup UNION {{events[i].results.detections[k] :
                   k \in 1..Len(events[i].results.detections)} :
                i \in EventsOfType("detection_result")}

PersonEnabled == IF "detectPerson" \in DOMAIN options
                   THEN options["detectPerson"] ELSE TRUE
CarEnabled == IF "detectCar" \in DOMAIN options THEN options["detectCar"] ELSE TRUE

\* C2: every reported detection record has class person or car, never
\* unknown, and its class is enabled by detectPerson / detectCar.
C2_OnlyEnabledClasses ==
  \A d \in ReportedDetections :
    /\ d.class \in {"person", "car"}
    /\ d.class = "person" => PersonEnabled
    /\ d.class = "car" => CarEnabled

\* C2 witness: detectPerson is false, the detector returned a person and a
\* car, and the car was reported in a detection_result event.
C2_Witness ==
  /\ ~PersonEnabled
  /\ preds.kind = "boxes"
  /\ \E a, b \in 1..Len(preds.boxes) :
       preds.boxes[a].cls = 0 /\ preds.boxes[b].cls = 2
  /\ \E i \in EventsOfType("detection_result") :
       Len(events[i].results.detections) >= 1

-----------------------------------------------------------------------------
(* C3: a record keeps the confidence and class id of its raw detection.    *)

\* The positions of the raw detections whose mapped class is enabled, in order.
RECURSIVE KeptFrom(_, _)
KeptFrom(boxes, i) ==
  IF i > Len(boxes) THEN <<>>
  ELSE LET c == boxes[i].cls
           keep == \/ c = 0 /\ PersonEnabled
                   \/ c \in {2, 3, 5, 7} /\ CarEnabled
       IN  (IF keep THEN <<i>> ELSE <<>>) \o KeptFrom(boxes, i + 1)

\* C3 (as claimed): the j-th record returned by detect_objects carries the
\* confidence and the class id of the raw detection it was built from.
C3_ConfidenceOfOwnRawDetection ==
  preds.kind = "boxes" =>
    LET kept == KeptFrom(preds.boxes, 1)
    IN  /\ Len(results.detections) = Len(kept)
        /\ \A j \in 1..Len(kept) :
             /\ results.detections[j].class_id = preds.boxes[kept[j]].cls
             /\ results.detections[j].confidence = preds.boxes[kept[j]].conf

-----------------------------------------------------------------------------
(* C4, C5, C6: the video loop.                                             *)

\* The frames the detector was invoked on.
InvokedFrames == {calls[k].frame : k \in 1..Len(calls)}

\* The frames of the stream that the scheduler samples.
SampledFrames == {i \in 0..(cap.frames - 1) : i % 5 = 0}

\* C4 (as claimed, for the videos whose frame rate is not zero): when a video
\* run is over, the detector was invoked exactly on the frames i with
\* i mod 5 = 0, ceil(F/5) times for a stream of F frames.
C4_DetectorOnEveryFifthFrame ==
  (VideoOpened /\ fps # 0 /\ Finished) =>
    /\ InvokedFrames = SampledFrames
    /\ Len(calls) = (cap.frames + 4) \div 5

\* C5 (as claimed, for the videos whose frame rate is not zero): when the
\* detector raised on a sampled frame, an error log and a detection_result
\* event with no detections and an error field were emitted for that frame,
\* and the finished run has read every frame and submitted every sampled one.
C5_DetectorFailureDoesNotEndRun ==
  (VideoOpened /\ fps # 0) =>
    \A k \in 1..Len(calls) :
      calls[k].raised =>
        /\ \E i \in EventsOfType("log") :
             events[i].level = "error" /\ events[i].message = "Detection error"
        /\ \E i \in EventsOfType("detection_result") :
             /\ events[i].timestamp = [num |-> calls[k].frame, den |-> fps]
             /\ events[i].results.detections = <<>>
             /\ "error" \in DOMAIN events[i].results
        /\ Finished => /\ cap.pos = cap.frames
                       /\ InvokedFrames = SampledFrames

\* C6 (as claimed, for the videos whose frame rate is not zero): whatever the
\* reported frame count, a finished video run has consumed every frame of the
\* stream and its last event is the log 'Video processing completed'.
C6_LoopEndsAtEndOfStream ==
  (VideoOpened /\ fps # 0 /\ Finished) =>
    /\ cap.pos = cap.frames
    /\ events[Len(events)].type = "log"
    /\ events[Len(events)].message = "Video processing completed"

-----------------------------------------------------------------------------
(* C7, C8, C9: timestamps.                                                 *)

IsDetectionResult(e) == e.type = "detection_result"
IsWallClockEvent(e) == e.type # "detection_result"

\* The detection_result events, and the other events, in emission order.
DetectionResults == SelectSeq(events, IsDetectionResult)
WallClockEvents == SelectSeq(events, IsWallClockEvent)

NonDecreasing(evs) ==
  \A i \in 1..(Len(evs) - 1) :
    evs[i].timestamp.num * evs[i + 1].timestamp.den
      <= evs[i + 1].timestamp.num * evs[i].timestamp.den

\* C7 (as claimed): over the whole trace the top-level timestamps of the
\* events are non-decreasing in emission order.
C7_AllTimestampsNonDecreasing == NonDecreasing(events)

\* C7 (amended): the timestamps of the log and annotated_image events are
\* non-decreasing in emission order; a detection_result event carries media
\* time instead: 0 for a still image, i / fps for frame i of a video.
C7_WallClockTimestampsNonDecreasing ==
  /\ NonDecreasing(WallClockEvents)
  /\ \A i \in 1..Len(DetectionResults) :
       LET ts == DetectionResults[i].timestamp
       IN  \/ ImageDecoded /\ ts = [num |-> 0, den |-> 1]
           \/ VideoOpened /\ ts.den = fps /\ ts.num \in InvokedFrames

\* C7 witness: a finished image run whose detection_result event, stamped 0,
\* follows an annotated_image event stamped with the wall clock.
C7_Witness ==
  /\ ImageDecoded /\ Finished
  /\ \E j \in EventsOfType("annotated_image") :
       /\ events[j].timestamp.num >= 1000
       /\ events[j + 1].type = "detection_result"
       /\ events[j + 1].timestamp.num = 0

\* C8: in a video run the detection_result events are emitted in
\* non-decreasing order of timestamp, and the event of the k-th detector
\* call, made on frame i, has timestamp i / fps.
C8_VideoResultsInTimestampOrder ==
  VideoOpened =>
    /\ NonDecreasing(DetectionResults)
    /\ Len(DetectionResults) <= Len(calls)
    /\ \A k \in 1..Len(DetectionResults) :
         DetectionResults[k].timestamp = [num |-> calls[k].frame, den |-> fps]

\* C8 witness: a video run with two detection_result events, the second for
\* frame 5 at a frame rate of 2.
C8_Witness ==
  /\ VideoOpened /\ fps = 2
  /\ Len(DetectionResults) = 2
  /\ DetectionResults[2].timestamp = [num |-> 5, den |-> 2]

\* C9: when the opened video reports fps 0, no detection_result event is
\* emitted, and once a frame has been submitted to the detector the run is
\* over with a log event of level error as its last event.
C9_ZeroFpsFailsExplicitly ==
  (VideoOpened /\ fps = 0) =>
    /\ EventsOfType("detection_result") = {}
    /\ calls # <<>> =>
         /\ Finished
         /\ IsErrorLog(events[Len(events)])
         /\ events[Len(events)].message = "Error processing video"

\* C9 witness: a video with fps 0 whose first frame was submitted to the
\* detector.
C9_Witness == VideoOpened /\ fps = 0 /\ Len(calls) = 1 /\ cap.pos = 1

-----------------------------------------------------------------------------
(* C10: missing or unsupported media.                                      *)

\* The suffixes of the runs that match no image or video extension in any
\* letter case.
RejectedSuffixes == {dot_txt, dot_jpgx, dot_JPEacuteG, dot_JPSigma,
                     dot_tIdotff, <<>>}

\* process_media has run on a media path.
Dispatched ==
  model # "none" /\ pc # "process_media" /\ "mediaPath" \in DOMAIN options

ErrorLogs == {i \in EventsOfType("log") : events[i].level = "error"}

\* C10: when the media file is missing or its suffix matches no image or
\* video extension case-insensitively, process_media emits exactly one event,
\* a log of level error, after the model-load log, and returns normally; a
\* present file with a matching suffix in any letter case is not rejected.
C10_RejectedMediaLogsOneError ==
  Dispatched =>
    LET media_path == options["mediaPath"]
    IN  IF ~media_path.exists \/ media_path.suffix \in RejectedSuffixes
          THEN /\ pc = "done" /\ exit_status = 0
               /\ Len(events) = 2
               /\ events[1].type = "log" /\ events[1].level = "info"
               /\ IsErrorLog(events[2])
               /\ EventsOfType("detection_result") = {}
               /\ EventsOfType("annotated_image") = {}
          ELSE \A i \in ErrorLogs :
                 events[i].message \notin {"Media file not found",
                                           "Unsupported file format"}

\* C10 witness: a run on a present file with suffix .txt that has returned
\* with its single error log.
C10_Witness ==
  /\ Dispatched
  /\ options["mediaPath"].exists
  /\ options["mediaPath"].suffix = dot_txt
  /\ pc = "done"
  /\ Cardinality(ErrorLogs) = 1

-----------------------------------------------------------------------------
(* C11, C14: the annotated image of a still image.                         *)

\* save_annotated_image raised and logged it.
SaveRaised ==
  \E i \in ErrorLogs : events[i].message = "Failed to save annotated image"

\* C11 (as claimed, for the runs in which saving does not raise): a finished
\* run on a decoded image has emitted exactly one detection_result event and
\* exactly one annotated_image event; when no detection survives, the event
\* carries detections = [] and the annotated image is written and announced.
C11_OneResultOneAnnotatedImage ==
  (ImageDecoded /\ Finished /\ ~SaveRaised) =>
    /\ Cardinality(EventsOfType("detection_result")) = 1
    /\ Cardinality(EventsOfType("annotated_image")) = 1
    /\ results.detections = <<>> =>
         /\ \A i \in EventsOfType("detection_result") :
              events[i].results.detections = <<>>
         /\ \A j \in EventsOfType("annotated_image") : events[j].path \in files

\* C14 (as claimed): once save_annotated_image has returned without the
\* annotated file being in the output directory, a log event of level error
\* has reported it, and the finished run has emitted the detection_result
\* event after that log.
C14_SaveFailureIsLogged ==
  (ImageDecoded /\ pc \in {"image_send", "image_end", "done"} /\ files = {}) =>
    /\ SaveRaised
    /\ Finished =>
         \E i \in ErrorLogs :
           /\ events[i].message = "Failed to save annotated image"
           /\ \E j \in EventsOfType("detection_result") : i < j

-----------------------------------------------------------------------------
(* C12, C13: failures of the set-up.                                       *)

\* C12 (as claimed): a run that ended with a plain-text message ended with a
\* non-zero status and had emitted no event.
C12_NoEventBeforeConfigExit ==
  (Finished /\ plain # <<>>) => exit_status = 1 /\ events = <<>>

\* C12 (amended): a missing argument or malformed JSON ends the run with a
\* non-zero status, one plain-text message and no event; options that lack
\* mediaPath end it with a non-zero status too, but only after load_model:
\* with one plain-text message after the model-load log event, or with the
\* error log event alone when loading fails.
C12_ConfigErrorExits ==
  /\ plain # <<>> =>
       /\ pc = "exited" /\ exit_status = 1 /\ Len(plain) = 1
       /\ IF plain[1] = "Error: 'mediaPath'"
            THEN /\ "mediaPath" \notin DOMAIN options
                 /\ Len(events) = 1
                 /\ events[1].type = "log" /\ events[1].level = "info"
            ELSE events = <<>>
  /\ ("mediaPath" \notin DOMAIN options /\ pc \notin {"main", "load_model"}) =>
       \/ pc = "process_media"
       \/ /\ pc = "exited" /\ exit_status = 1
          /\ Len(plain) + Len(events) <= 2
          /\ \A i \in 1..Len(events) : events[i].type = "log"

\* C12 witness: options without mediaPath, the model loaded, and the run
\* ended with the plain-text message after the model-load event.
C12_Witness ==
  /\ pc = "exited"
  /\ model # "none"
  /\ plain = <<"Error: 'mediaPath'">>
  /\ Len(events) = 1

\* C13: a run in which the model did not load emits nothing but the error log
\* of load_model and ends with a non-zero status: process_media is never
\* started, the detector is never invoked, and no detection_result or
\* annotated_image event is emitted.
C13_ModelLoadFailureIsFatal ==
  /\ model = "none" =>
       /\ pc \in {"main", "load_model", "exited"}
       /\ calls = <<>>
       /\ EventsOfType("detection_result") = {}
       /\ EventsOfType("annotated_image") = {}
  /\ (model = "none" /\ pc = "exited" /\ plain = <<>>) =>
       /\ exit_status = 1
       /\ Len(events) = 1
       /\ IsErrorLog(events[1])
       /\ events[1].message = "Failed to load model"

\* C13 witness: the run ended in load_model with its error log.
C13_Witness ==
  /\ model = "none" /\ pc = "exited" /\ plain = <<>>
  /\ "mediaPath" \in DOMAIN options
  /\ Len(events) = 1

-----------------------------------------------------------------------------
(* C15, C16: the records of detect_objects (under SpecDetect).             *)

\* x is n / d truncated toward zero (d > 0).
IsTruncated(x, n, d) ==
  IF n >= 0 THEN d * x <= n /\ n < d * x + d
            ELSE d * x >= n /\ n > d * x - d

\* The integers nearest to h / 2 (both of them when h is odd).
RoundedHalf(h) == {r \in ((h \div 2) - 1)..((h \div 2) + 1) :
                     2 * r - h <= 1 /\ h - 2 * r <= 1}

\* Record d has the geometry the claim gives for raw detection raw, whose
\* centre and extent are in half pixels: xc - w/2 is (2*xc - bw) / 4 pixels.
GeometryOf(d, raw) ==
  /\ IsTruncated(d.x, 2 * raw.xc - raw.bw, 4)
  /\ IsTruncated(d.y, 2 * raw.yc - raw.bh, 4)
  /\ IsTruncated(d.x + d.width, 2 * raw.xc + raw.bw, 4)
  /\ IsTruncated(d.y + d.height, 2 * raw.yc + raw.bh, 4)
  /\ d.width >= 0 /\ d.height >= 0

\* The returned records pair with the raw detections of enabled class.
ReturnedFromKept ==
  pc = "returned" /\ Len(results.detections) = Len(KeptFrom(preds.boxes, 1))

\* C15: the record built from a raw detection with non-negative extent has
\* x = trunc(xc - w/2), y = trunc(yc - h/2), width = trunc(xc + w/2) - x >= 0,
\* height = trunc(yc + h/2) - y >= 0, and x + width/2 (y + height/2) is within
\* 1 of the rounded centre; xc=100, yc=100, w=40, h=80 gives 80, 60, 40, 80.
C15_CornerTruncation ==
  ReturnedFromKept =>
    LET kept == KeptFrom(preds.boxes, 1)
    IN  \A j \in 1..Len(kept) :
          LET raw == preds.boxes[kept[j]]
              d == results.detections[j]
          IN  /\ GeometryOf(d, raw)
              /\ \A r \in RoundedHalf(raw.xc) :
                   /\ 2 * d.x + d.width - 2 * r <= 2
                   /\ 2 * r - (2 * d.x + d.width) <= 2
              /\ \A r \in RoundedHalf(raw.yc) :
                   /\ 2 * d.y + d.height - 2 * r <= 2
                   /\ 2 * r - (2 * d.y + d.height) <= 2
              /\ (raw.xc = 200 /\ raw.yc = 200 /\ raw.bw = 80 /\ raw.bh = 160) =>
                   d.x = 80 /\ d.y = 60 /\ d.width = 40 /\ d.height = 80

\* C15 witness: a box whose left edge xc - w/2 = -0.75 is truncated to 0
\* and whose right edge 1.75 to 1.
C15_Witness ==
  /\ pc = "returned"
  /\ Len(preds.boxes) = 1 /\ Len(results.detections) = 1
  /\ preds.boxes[1].xc = 1 /\ preds.boxes[1].bw = 5
  /\ results.detections[1].x = 0 /\ results.detections[1].width = 1

\* C16: the returned list is the subsequence of the raw detections whose
\* mapped class is enabled, in the detector's order: the j-th record has the
\* class id and the geometry of the j-th raw detection of enabled class.
C16_EnabledSubsequenceInOrder ==
  pc = "returned" =>
    LET kept == KeptFrom(preds.boxes, 1)
    IN  /\ Len(results.detections) = Len(kept)
        /\ \A j \in 1..Len(kept) :
             LET raw == preds.boxes[kept[j]]
                 d == results.detections[j]
             IN  /\ d.class_id = raw.cls
                 /\ GeometryOf(d, raw)
                 /\ IsTruncated(d.center_x, raw.xc, 2)
                 /\ IsTruncated(d.center_y, raw.yc, 2)

\* C16 witness: three raw detections, the middle one dropped, the two kept
\* ones of different boxes returned in the detector's order.
C16_Witness ==
  /\ pc = "returned"
  /\ Len(preds.boxes) = 3
  /\ KeptFrom(preds.boxes, 1) = <<1, 3>>
  /\ preds.boxes[1].xc # preds.boxes[3].xc
  /\ Len(results.detections) = 2
  /\ results.detections[1].center_x # results.detections[2].center_x

-----------------------------------------------------------------------------
(* C17: the name of the annotated file.                                    *)

\* The extension of the image paths of the runs, as the last part of a file
\* name, in the letter case written or in lower case.
ExtensionAsText(suffix) ==
  IF suffix = dot_jpg THEN {".jpg"}
  ELSE IF suffix = dot_PnG THEN {".PnG", ".png"}
  ELSE {}

\* C17 (as claimed): the annotated_image event of an image with stem S and
\* extension E carries a path under the output directory that ends in
\* S_detected.E.
C17_OutputKeepsExtension ==
  \A j \in EventsOfType("annotated_image") :
    /\ Len(events[j].path) = 4
    /\ events[j].path[1] = "output/"
    /\ events[j].path[2] = options["mediaPath"].stem
    /\ events[j].path[3] = "_detected"
    /\ events[j].path[4] \in ExtensionAsText(options["mediaPath"].suffix)

\* C17 (amended): for an image with stem S and any of the image extensions,
\* the annotated file, when written, is written under the output directory
\* with the name S_detected.jpg, and the path carried by the annotated_image
\* event is that name: the extension is always .jpg.
C17_OutputIsStemDetectedJpg ==
  LET name == <<"output/", options["mediaPath"].stem, "_detected", ".jpg">>
  IN  /\ \A j \in EventsOfType("annotated_image") : events[j].path = name
      /\ \A f \in files : f = name

\* C17 witness: the image thermal_01.PnG was annotated, written and announced.
C17_Witness ==
  /\ ImageDecoded
  /\ options["mediaPath"].stem = "thermal_01"
  /\ options["mediaPath"].suffix = dot_PnG
  /\ files # {}
  /\ EventsOfType("annotated_image") # {}

-----------------------------------------------------------------------------
(* C18: the fields of a detection_result event.                            *)

\* The k-th detection_result event reports the k-th detector call.
ResultsFollowCalls == Len(DetectionResults) <= Len(calls)

\* C18 (as claimed): the results object of every detection_result event has
\* a detections list and a timestamp field, an error field exactly when the
\* detector call failed, and image_shape exactly when it did not fail.
C18_ResultsAlwaysTimestamped ==
  /\ ResultsFollowCalls
  /\ \A k \in 1..Len(DetectionResults) :
       LET r == DetectionResults[k].results
       IN  /\ "detections" \in DOMAIN r
           /\ "timestamp" \in DOMAIN r
           /\ "error" \in DOMAIN r <=> calls[k].raised
           /\ "image_shape" \in DOMAIN r <=> ~calls[k].raised

\* C18 (amended): the results object of every detection_result event has a
\* detections list; it has an error field exactly when the detector call
\* failed, and it has image_shape and timestamp exactly when the call did not
\* fail.
C18_ResultsFields ==
  /\ ResultsFollowCalls
  /\ \A k \in 1..Len(DetectionResults) :
       LET r == DetectionResults[k].results
       IN  /\ "detections" \in DOMAIN r
           /\ "error" \in DOMAIN r <=> calls[k].raised
           /\ "image_shape" \in DOMAIN r <=> ~calls[k].raised
           /\ "timestamp" \in DOMAIN r <=> ~calls[k].raised

\* C18 witness: a video run with the detection_result event of a failed call
\* followed by that of a call that did not fail.
C18_Witness ==
  /\ VideoOpened
  /\ Len(DetectionResults) = 2
  /\ calls[1].raised /\ ~calls[2].raised
  /\ "error" \in DOMAIN DetectionResults[1].results
  /\ "timestamp" \in DOMAIN DetectionResults[2].results

-----------------------------------------------------------------------------
(* C19, C20: media that does not open, and the capture handle.             *)

\* C19: the detector is invoked only once an image was decoded or a video
\* opened; a run whose media file is missing, has an unsupported extension,
\* fails to decode or fails to open ends with no detector call, no
\* detection_result event, no annotated_image event and exactly one log event
\* of level error.
C19_DetectorOnlyOnOpenedMedia ==
  /\ calls # <<>> => ImageDecoded \/ VideoOpened
  /\ (Dispatched /\ pc = "done" /\ ~ImageDecoded /\ ~VideoOpened) =>
       /\ calls = <<>>
       /\ EventsOfType("detection_result") = {}
       /\ EventsOfType("annotated_image") = {}
       /\ Cardinality(ErrorLogs) = 1

\* C19 witness: the image file was present but cv2.imread returned None, and
\* the run ended with that error log.
C19_Witness ==
  /\ Dispatched /\ pc = "done" /\ ~ImageDecoded
  /\ \E i \in ErrorLogs : events[i].message = "Failed to load image"

\* C20 (as claimed): when process_video has finished on a capture that was
\* opened, the capture has been released.
C20_CaptureReleased ==
  (VideoOpened /\ Finished) => cap.state = "released"

====
